---- MODULE Spec2Model ----
(***************************************************************************)
(* Model of examples/simple_event_writer.py: the SimpleEventWriter tool.   *)
(* setup creates the event source, the calibrator and the HDF5 writer;     *)
(* start loops over the events of the source, calibrates each one and, for *)
(* every telescope with data, cleans the image, computes the Hillas        *)
(* parameters and writes one row; finish closes the writer.                *)
(***************************************************************************)
EXTENDS Integers, Sequences, FiniteSets, TLC

\* ------------------------------------------------------------------ bounds

\* Largest number of events in the input file.
MaxEvents == 2

\* ---------------------------------------------------------------- helpers

None == "None"

\* An optional value: <<>> for Python's None, <<v>> for the value v.
Some(v) == <<v>>
Nothing == <<>>

RECURSIVE SumTo(_, _)
\* sum of f[1] .. f[n]
SumTo(f, n) == IF n = 0 THEN 0 ELSE f[n] + SumTo(f, n - 1)

Range(s) == {s[i] : i \in 1..Len(s)}

\* ------------------------------------------------------- the input data

\* Telescope ids of the subarray the event source describes.
TelIds == {1, 2, 3}

\* Every input identifier the command line may name.
Inputs == {"default.simtel.zst", "other.simtel.gz"}

\* get_dataset_path("lst_prod3_calibration_and_mcphotons.simtel.zst")
DefaultInfile == "default.simtel.zst"

\* subarray.tel[tel_id].camera.geometry: camera name and pixel count; the
\* pixels of a camera lie on a line, pixel p next to p - 1 and p + 1.
CameraGeometry(t) ==
    IF t % 2 = 1 THEN [camera_name |-> "LSTCam", n_pixels |-> 3]
                 ELSE [camera_name |-> "NectarCam", n_pixels |-> 2]

Neighbors(g, p) == {q \in 1..g.n_pixels : q = p - 1 \/ q = p + 1}

\* Iteration orders of a tels_with_data set: sequences without repetition.
TelSeqs ==
    UNION {{s \in [1..n -> TelIds] : \A i, j \in 1..n : i # j => s[i] # s[j]}
           : n \in 0..Cardinality(TelIds)}

\* Events of a file: numbered in file order, each with its telescopes with data.
Datasets ==
    UNION {{[i \in 1..n |-> [event_id |-> i, tels_with_data |-> ts[i]]]
            : ts \in [1..n -> TelSeqs]} : n \in 0..MaxEvents}

\* Integrated charges found in the simulated waveforms.
Charges == <<12, 6, 3, 11, 2, 7, 10, 5, 0, 13>>

Charge(ev, t, p) == Charges[((2 * ev.event_id + t + 6 * p) % Len(Charges)) + 1]

\* event.r0.tel[t].waveform: two samples per pixel of the telescope's camera.
R0Waveform(ev, t) ==
    [p \in 1..CameraGeometry(t).n_pixels |->
        LET c == Charge(ev, t, p) IN <<c \div 2, c - (c \div 2)>>]

\* event.r0 and event.mc, the containers written with every row.
R0Container(ev) ==
    [container |-> "r0", event_id |-> ev.event_id,
     tels_with_data |-> ev.tels_with_data]

MCContainer(ev) == [container |-> "mc", event_id |-> ev.event_id]

\* ------------------------------------------------------ the collaborators

\* CameraCalibrator: the dl1 image is the waveform integrated per pixel.
CalibratedImage(ev, t) ==
    LET waveform == R0Waveform(ev, t)
    IN  [p \in 1..Len(waveform) |-> waveform[p][1] + waveform[p][2]]

picture_thresh == 10
boundary_thresh == 5

AtLeast(img, p, th) == p \in 1..Len(img) /\ img[p] >= th

\* ctapipe.image.tailcuts_clean with its defaults (no isolated pixels kept):
\* picture pixels with a boundary neighbour, boundary pixels with a picture
\* neighbour. One boolean per pixel of the geometry.
tailcuts_clean(g, img, pic, bnd) ==
    [p \in 1..g.n_pixels |->
        \/ /\ AtLeast(img, p, bnd)
           /\ \E q \in Neighbors(g, p) : AtLeast(img, q, pic)
        \/ /\ AtLeast(img, p, pic)
           /\ \E q \in Neighbors(g, p) : AtLeast(img, q, bnd)]

\* ctapipe.image.hillas_parameters: moments of the image over the geometry.
hillas_parameters(g, img) ==
    [container |-> "hillas",
     intensity |-> SumTo(img, Len(img)),
     moment |-> SumTo([p \in 1..Len(img) |-> p * img[p]], Len(img))]

\* ------------------------------------------------------------------ state

VARIABLES
    infile,        \* SimpleEventWriter.infile
    input_url,     \* the configured EventSource.input_url (alias "infile")
    progress,      \* SimpleEventWriter.progress
    dataset,       \* the events stored in the file named by infile
    h5file,        \* the rows of the file at outfile, on disk
    prev_output,   \* h5file as the previous complete run left it
    pc,            \* position of the run
    error,         \* the step whose failure ended the run
    event_source,  \* self.event_source
    calibrator,    \* self.calibrator
    writer,        \* self.writer: its state (none, open, closed) and group
    tqdm_disable,  \* the disable argument given to tqdm
    event,         \* loop variable of start
    tel_idx,       \* position in event.dl0.tels_with_data
    tel_id, geom, image, mask, cleaned, params,  \* locals of start
    heap,          \* the numpy arrays: event.dl1.tel[t].image at t, the copy at 0
    log            \* the collaborator calls made so far, in order

config == <<infile, input_url, progress, dataset>>
objects == <<event_source, calibrator, writer, tqdm_disable>>
locals == <<event, tel_idx, tel_id, geom, image, mask, cleaned, params, heap>>
vars == <<config, objects, locals, h5file, prev_output, pc, error, log>>

CopyAddr == 0
Addrs == TelIds \cup {CopyAddr}
NoArrays == [a \in Addrs |-> <<>>]

\* The values of the attributes and locals before they are assigned.
NoSource == [input_url |-> None, pos |-> 0]
NoWriter == [state |-> "none", group_name |-> ""]
NoEvent == [event_id |-> 0, tels_with_data |-> <<>>]
NoGeom == [camera_name |-> "", n_pixels |-> 0]
NoParams == [container |-> "none", intensity |-> 0, moment |-> 0]
NoTel == 0
NoAddr == -1

Call(op, ev, t) == [op |-> op, ev |-> ev, tel |-> t]

\* --------------------------------------------------------- Python values

\* ~b on a Python bool: the bool is the integer 1 or 0, ~n is -n - 1.
BitwiseNot(b) == -(IF b THEN 1 ELSE 0) - 1

\* Truth value of a Python integer.
Truthy(n) == n # 0

\* cleaned[~mask] = 0 on numpy arrays: zero where the mask is False.
MaskedAssign(arr, m) ==
    [p \in 1..Len(arr) |-> IF p \in 1..Len(m) /\ ~m[p] THEN 0 ELSE arr[p]]

\* ------------------------------------------------------------------- Init

NoLocals ==
    /\ event = NoEvent /\ tel_idx = 0 /\ tel_id = NoTel /\ geom = NoGeom
    /\ image = NoAddr /\ mask = <<>> /\ cleaned = NoAddr /\ params = NoParams
    /\ heap = NoArrays

NoObjects ==
    /\ event_source = NoSource /\ calibrator = None /\ writer = NoWriter
    /\ tqdm_disable = Nothing

\* The command line: every file with the default configuration, and every
\* configuration with the files of at most one event.
Init ==
    /\ dataset \in Datasets
    /\ \/ /\ infile = DefaultInfile
          /\ input_url = None
          /\ progress = TRUE
       \/ /\ Len(dataset) <= 1
          /\ infile \in Inputs
          /\ input_url \in Inputs \cup {None}
          /\ progress \in BOOLEAN
    /\ h5file = <<>>
    /\ prev_output = Nothing
    /\ pc = "setup_source"
    /\ error = None
    /\ NoObjects
    /\ NoLocals
    /\ log = <<>>

\* ------------------------------------------------------------------ setup

\* The input the event source is opened on.
SourceUrl == infile

SetupSource ==
    /\ pc = "setup_source"
    /\ event_source' = [input_url |-> SourceUrl, pos |-> 0]
    /\ log' = Append(log, Call("EventSource", 0, 0))
    /\ pc' = "setup_calibrator"
    /\ UNCHANGED <<config, locals, h5file, prev_output, error, calibrator,
                   writer, tqdm_disable>>

SetupCalibrator ==
    /\ pc = "setup_calibrator"
    /\ calibrator' = "CameraCalibrator"
    /\ log' = Append(log, Call("CameraCalibrator", 0, 0))
    /\ pc' = "setup_writer"
    /\ UNCHANGED <<config, locals, h5file, prev_output, error, event_source,
                   writer, tqdm_disable>>

\* A writer created without overwrite.
OverwriteOff == FALSE

\* The overwrite argument of HDF5TableWriter.
Overwrite == TRUE

group_name == "image_infos"

\* HDF5TableWriter(filename, group_name, overwrite): with overwrite an existing
\* file is replaced by an empty one, without it the file is opened to append.
SetupWriter ==
    /\ pc = "setup_writer"
    /\ writer' = [state |-> "open", group_name |-> group_name]
    /\ h5file' = IF Overwrite THEN <<>> ELSE h5file
    /\ log' = Append(log, Call("HDF5TableWriter", 0, 0))
    /\ pc' = "start"
    /\ UNCHANGED <<config, locals, prev_output, error, event_source,
                   calibrator, tqdm_disable>>

\* ------------------------------------------------------------------ start

\* The disable argument given to tqdm.
DisableArg(p) == BitwiseNot(p)

StartLoop ==
    /\ pc = "start"
    /\ tqdm_disable' = Some(DisableArg(progress))
    /\ pc' = "next_event"
    /\ UNCHANGED <<config, locals, h5file, prev_output, error, event_source,
                   calibrator, writer, log>>

\* for event in tqdm(self.event_source, ...): the next event of the source
FetchEvent ==
    /\ pc = "next_event"
    /\ event_source.pos < Len(dataset)
    /\ event_source' = [event_source EXCEPT !.pos = @ + 1]
    /\ event' = dataset[event_source.pos + 1]
    /\ log' = Append(log, Call("next", event_source.pos + 1, 0))
    /\ pc' = "calibrate"
    /\ UNCHANGED <<config, h5file, prev_output, error, calibrator, writer,
                   tqdm_disable, tel_idx, tel_id, geom, image, mask, cleaned,
                   params, heap>>

\* the source is exhausted: the loop ends and start returns
EndOfEvents ==
    /\ pc = "next_event"
    /\ event_source.pos >= Len(dataset)
    /\ pc' = "finish"
    /\ UNCHANGED <<config, objects, locals, h5file, prev_output, error, log>>

\* self.calibrator(event): fills event.dl1.tel[t].image in place
Calibrate ==
    /\ pc = "calibrate"
    /\ heap' = [a \in Addrs |->
                   IF a \in Range(event.tels_with_data)
                   THEN CalibratedImage(event, a) ELSE <<>>]
    /\ tel_idx' = 1
    /\ log' = Append(log, Call("calibrate", event.event_id, 0))
    /\ pc' = "next_tel"
    /\ UNCHANGED <<config, objects, h5file, prev_output, error, event, tel_id,
                   geom, image, mask, cleaned, params>>

\* A geometry looked up for a fixed telescope instead of tel_id.
GeomTelFirst(t) == 1

\* The telescope whose geometry is looked up for telescope t.
GeomTel(t) == t

\* for tel_id in event.dl0.tels_with_data: geom, dl1_tel and image
SelectTel ==
    /\ pc = "next_tel"
    /\ tel_idx <= Len(event.tels_with_data)
    /\ tel_id' = event.tels_with_data[tel_idx]
    /\ geom' = CameraGeometry(GeomTel(tel_id'))
    /\ image' = tel_id'
    /\ pc' = "clean"
    /\ UNCHANGED <<config, objects, h5file, prev_output, error, event, tel_idx,
                   mask, cleaned, params, heap, log>>

\* every telescope of the event is done: back to the event loop
EndOfTels ==
    /\ pc = "next_tel"
    /\ tel_idx > Len(event.tels_with_data)
    /\ pc' = "next_event"
    /\ UNCHANGED <<config, objects, locals, h5file, prev_output, error, log>>

Clean ==
    /\ pc = "clean"
    /\ mask' = tailcuts_clean(geom, heap[image], picture_thresh, boundary_thresh)
    /\ log' = Append(log, Call("tailcuts_clean", event.event_id, tel_id))
    /\ pc' = "copy"
    /\ UNCHANGED <<config, objects, h5file, prev_output, error, event, tel_idx,
                   tel_id, geom, image, cleaned, params, heap>>

\* cleaned = image, without the copy: both names are one array.
CleanedAddrAliased(a) == a

\* The array that cleaned names, given the array that image names.
CleanedAddr(a) == CopyAddr

\* cleaned = image.copy(); cleaned[~mask] = 0
CopyAndMask ==
    /\ pc = "copy"
    /\ cleaned' = CleanedAddr(image)
    /\ LET copied == [heap EXCEPT ![CopyAddr] = heap[image]]
       IN  heap' = [copied EXCEPT ![cleaned'] = MaskedAssign(@, mask)]
    /\ pc' = "hillas"
    /\ UNCHANGED <<config, objects, h5file, prev_output, error, event, tel_idx,
                   tel_id, geom, image, mask, params, log>>

Hillas ==
    /\ pc = "hillas"
    /\ params' = hillas_parameters(geom, heap[cleaned])
    /\ log' = Append(log, Call("hillas_parameters", event.event_id, tel_id))
    /\ pc' = "write"
    /\ UNCHANGED <<config, objects, h5file, prev_output, error, event, tel_idx,
                   tel_id, geom, image, mask, cleaned, heap>>

\* The row writer.write(table_name, containers) appends to the file.
Row(table_name, containers) ==
    [group |-> writer.group_name, table |-> table_name, containers |-> containers]

\* A write with the mc record ahead of the r0 record.
WriteArgsSwapped(ev, g, par) ==
    [table_name |-> g.camera_name,
     containers |-> <<MCContainer(ev), R0Container(ev), par>>]

\* The arguments of writer.write: the table name and the containers.
WriteArgs(ev, g, par) ==
    [table_name |-> g.camera_name,
     containers |-> <<R0Container(ev), MCContainer(ev), par>>]

\* A loop that steps over every other telescope.
NextTelIdxSkips(i) == i + 2

\* The position in tels_with_data after telescope i has been written.
NextTelIdx(i) == i + 1

\* A telescope loop left after its first row.
AfterWriteLeavesLoop == "next_event"

\* Where the run goes after a row is written: on to the next telescope.
AfterWrite == "next_tel"

Write ==
    /\ pc = "write"
    /\ writer.state = "open"
    /\ LET args == WriteArgs(event, geom, params)
       IN  h5file' = Append(h5file, Row(args.table_name, args.containers))
    /\ log' = Append(log, Call("write", event.event_id, tel_id))
    /\ tel_idx' = NextTelIdx(tel_idx)
    /\ pc' = AfterWrite
    /\ UNCHANGED <<config, objects, prev_output, error, event, tel_id, geom,
                   image, mask, cleaned, params, heap>>

\* ----------------------------------------------------------------- finish

Finish ==
    /\ pc = "finish"
    /\ writer' = [writer EXCEPT !.state = "closed"]
    /\ log' = Append(log, Call("close", 0, 0))
    /\ pc' = "done"
    /\ UNCHANGED <<config, locals, h5file, prev_output, error, event_source,
                   calibrator, tqdm_disable>>

\* --------------------------------------------------------------- failures

\* The steps that call a collaborator, each of which may raise.
Fallible ==
    {"setup_source", "setup_calibrator", "setup_writer", "next_event",
     "calibrate", "clean", "hillas", "write"}

\* A start that catches the failure of hillas_parameters and goes on to write.
OnErrorSwallowed(s) == IF s = "hillas" THEN "write" ELSE "failed"

\* What the run does when the collaborator called at step s raises: nothing
\* in setup or start catches the exception, and the run ends.
OnError(s) == "failed"

Raise ==
    /\ pc \in Fallible
    /\ error' = pc
    /\ pc' = OnError(pc)
    /\ UNCHANGED <<config, objects, locals, h5file, prev_output, log>>

\* ------------------------------------------------------------ a second run

\* The tool is run again with the same command line: a new process, the same
\* files on disk.
Rerun ==
    /\ pc \in {"done", "failed"}
    /\ prev_output' = IF pc = "done" THEN Some(h5file) ELSE prev_output
    /\ pc' = "setup_source"
    /\ error' = None
    /\ event_source' = NoSource /\ calibrator' = None /\ writer' = NoWriter
    /\ tqdm_disable' = Nothing
    /\ event' = NoEvent /\ tel_idx' = 0 /\ tel_id' = NoTel /\ geom' = NoGeom
    /\ image' = NoAddr /\ mask' = <<>> /\ cleaned' = NoAddr /\ params' = NoParams
    /\ heap' = NoArrays
    /\ log' = <<>>
    /\ UNCHANGED <<config, h5file>>

Next ==
    \/ SetupSource \/ SetupCalibrator \/ SetupWriter
    \/ StartLoop \/ FetchEvent \/ EndOfEvents \/ Calibrate
    \/ SelectTel \/ EndOfTels \/ Clean \/ CopyAndMask \/ Hillas \/ Write
    \/ Finish \/ Raise \/ Rerun

Spec == Init /\ [][Next]_vars

\* ------------------------------------------- what a pass over a file writes

RECURSIVE PairsOf(_, _)
\* The (event, telescope with data) pairs of the first n events of ds, in
\* iteration order.
PairsOf(ds, n) ==
    IF n = 0 THEN <<>>
    ELSE PairsOf(ds, n - 1) \o
         [i \in 1..Len(ds[n].tels_with_data) |->
             [ev |-> ds[n], tel |-> ds[n].tels_with_data[i]]]

\* The image hillas_parameters is due for event ev and telescope t.
CleanedImage(ev, t) ==
    LET calibrated == CalibratedImage(ev, t)
    IN  MaskedAssign(calibrated,
                     tailcuts_clean(CameraGeometry(t), calibrated,
                                    picture_thresh, boundary_thresh))

\* The row due for event ev and telescope t.
RowOf(ev, t) ==
    [group |-> "image_infos",
     table |-> CameraGeometry(t).camera_name,
     containers |-> <<R0Container(ev), MCContainer(ev),
                      hillas_parameters(CameraGeometry(t), CleanedImage(ev, t))>>]

RowsOf(pairs) == [k \in 1..Len(pairs) |-> RowOf(pairs[k].ev, pairs[k].tel)]

\* The rows this run has written: the file, once the writer has replaced it.
RowsWritten == IF writer.state = "none" THEN <<>> ELSE h5file

\* The events the source has yielded to the loop so far.
Yielded == event_source.pos

InTelBody == pc \in {"clean", "copy", "hillas", "write"}

C2_WriterClosedWhenRunEnds ==
    (pc \in {"done", "failed"} /\ writer.state # "none") => writer.state = "closed"

\* ------------------------------------------------------------------ C3
\* The pairs that precede the step at which the run stands.
PrecedingPairs ==
    IF Yielded = 0 THEN <<>>
    ELSE IF pc = "next_event" \/ error = "next_event" THEN PairsOf(dataset, Yielded)
    ELSE IF pc = "calibrate" \/ error = "calibrate" THEN PairsOf(dataset, Yielded - 1)
    ELSE PairsOf(dataset, Yielded - 1) \o
         [i \in 1..(tel_idx - 1) |->
             [ev |-> event, tel |-> event.tels_with_data[i]]]

\* C3: a failure of a collaborator ends the run at that step: it is not
\* caught, the rows written are exactly those of the pairs that precede the
\* failing step, and nothing is processed or written afterwards.
C3_FailureEndsRun ==
    /\ [](error # None =>
            /\ pc = "failed"
            /\ RowsWritten = RowsOf(PrecedingPairs)
            /\ (error \in {"setup_source", "setup_calibrator", "setup_writer"}
                    => RowsWritten = <<>>))
    /\ [][pc = "failed" => (pc' = "setup_source" /\ log' = <<>>)]_vars

C3_Witness ==
    /\ pc = "failed"
    /\ error = "hillas"
    /\ Yielded = 2
    /\ tel_idx = 2
    /\ Len(h5file) = Len(dataset[1].tels_with_data) + 1
    /\ Len(event.tels_with_data) = 3

\* ------------------------------------------------------------------ C4
\* C4: the output of a complete run is a function of the input events alone:
\* the writer starts from an empty file whatever an earlier run left there,
\* and a complete run that follows a complete run leaves the same rows.
C4_RerunSameOutput ==
    /\ pc = "start" => h5file = <<>>
    /\ pc = "done" =>
           /\ h5file = RowsOf(PairsOf(dataset, Len(dataset)))
           /\ Len(prev_output) = 1 => h5file = prev_output[1]

C4_Witness ==
    /\ pc = "done"
    /\ Len(prev_output) = 1
    /\ Len(h5file) >= 2

\* ------------------------------------------------------------------ C5
\* C5: whenever EventSource.input_url is configured, the source that setup
\* creates is opened on that input.
C5_SourceReadsInputUrl ==
    (event_source.input_url # None /\ input_url # None)
        => event_source.input_url = input_url

\* ------------------------------------------------------------------ C6
\* C6: the disable value given to the progress bar is truthy exactly when
\* progress is false.
C6_DisableIffNotProgress ==
    Len(tqdm_disable) = 1 => (Truthy(tqdm_disable[1]) <=> ~progress)

\* ------------------------------------------------------------------ C7
\* C7: every row written lies in group image_infos, in the table named by the
\* camera of the telescope that produced it, and holds the r0 record and the
\* mc record of its event and the Hillas parameters of that event and
\* telescope, in this order; telescopes of one camera name share a table.
C7_RowContent ==
    LET pairs == PairsOf(dataset, Yielded)
        rows == RowsWritten
    IN  /\ Len(rows) <= Len(pairs)
        /\ \A k \in 1..Len(rows) :
               LET row == rows[k]
                   ev == pairs[k].ev
                   tel == pairs[k].tel
               IN  /\ row.group = "image_infos"
                   /\ row.table = CameraGeometry(tel).camera_name
                   /\ Len(row.containers) = 3
                   /\ row.containers[1] = R0Container(ev)
                   /\ row.containers[2] = MCContainer(ev)
                   /\ row.containers[3] =
                          hillas_parameters(CameraGeometry(tel), CleanedImage(ev, tel))
        /\ \A k, l \in 1..Len(rows) :
               CameraGeometry(pairs[k].tel).camera_name =
                   CameraGeometry(pairs[l].tel).camera_name
               => rows[k].table = rows[l].table

C7_Witness ==
    /\ pc = "done"
    /\ Len(h5file) >= 3
    /\ h5file[1].table = h5file[2].table
    /\ h5file[1].containers[3] # h5file[2].containers[3]
    /\ h5file[3].table # h5file[1].table
    /\ h5file[3].containers[3].intensity > 0

\* ------------------------------------------------------------------ C8
WritesOf(e, n) == Cardinality({j \in 1..n : log[j].op = "write" /\ log[j].ev = e})

\* C8: the three collaborators are created, in setup, before the first event
\* is fetched; an event is calibrated once, right after it is fetched and
\* before any cleaning; per telescope the calls are clean, parametrize,
\* write; every row of an event is written before the next event is
\* fetched; the writer is closed after the last write, and no row is written
\* before the writer is opened or after it is closed.
C8_CallOrder ==
    LET n == Len(log)
        Same(i, j) == log[i].ev = log[j].ev /\ log[i].tel = log[j].tel
    IN  /\ \A i \in 1..n :
               log[i].op = "next" =>
                   /\ i > 3
                   /\ log[1].op = "EventSource"
                   /\ log[2].op = "CameraCalibrator"
                   /\ log[3].op = "HDF5TableWriter"
                   /\ \A j \in (i + 1)..n : log[j].ev >= log[i].ev \/ log[j].ev = 0
                   /\ log[i].ev > 1 =>
                          WritesOf(log[i].ev - 1, i) =
                              Len(dataset[log[i].ev - 1].tels_with_data)
                   /\ i < n => log[i + 1] = Call("calibrate", log[i].ev, 0)
        /\ \A i \in 1..n :
               log[i].op = "calibrate" =>
                   /\ i > 1 /\ log[i - 1] = Call("next", log[i].ev, 0)
                   /\ \A j \in 1..n :
                          (log[j].op = "calibrate" /\ log[j].ev = log[i].ev) => j = i
        /\ \A i \in 1..n :
               log[i].op = "tailcuts_clean" =>
                   /\ i > 1 /\ log[i - 1].op \in {"calibrate", "write"}
                   /\ log[i - 1].ev = log[i].ev
                   /\ \E j \in 1..(i - 1) : log[j] = Call("calibrate", log[i].ev, 0)
                   /\ i < n => (log[i + 1].op = "hillas_parameters" /\ Same(i, i + 1))
        /\ \A i \in 1..n :
               log[i].op = "hillas_parameters" =>
                   /\ i > 1 /\ log[i - 1].op = "tailcuts_clean" /\ Same(i, i - 1)
                   /\ i < n => (log[i + 1].op = "write" /\ Same(i, i + 1))
        /\ \A i \in 1..n :
               log[i].op = "write" =>
                   /\ i > 1 /\ log[i - 1].op = "hillas_parameters" /\ Same(i, i - 1)
                   /\ \E j \in 1..(i - 1) : log[j].op = "HDF5TableWriter"
                   /\ \A j \in 1..(i - 1) : log[j].op # "close"
        /\ \A i \in 1..n : log[i].op = "close" => (i = n /\ pc = "done")
        /\ pc \in {"write", "next_tel", "clean", "copy", "hillas"} => writer.state = "open"
        /\ pc = "done" =>
               /\ writer.state = "closed"
               /\ log[n].op = "close"
               /\ \A e \in 1..Len(dataset) :
                      \E i \in 1..n : log[i] = Call("calibrate", e, 0)

C8_Witness ==
    /\ pc = "done"
    /\ WritesOf(1, Len(log)) = 2
    /\ WritesOf(2, Len(log)) = 3

\* ------------------------------------------------------------------ C9
\* C9: the image handed to hillas_parameters equals the calibrated image
\* where the mask of tailcuts_clean (thresholds 10 and 5) is true and is 0
\* where it is false; and from calibration on the images of the event stay
\* as the calibrator left them.
C9_MaskedCopy ==
    /\ pc = "hillas" =>
           /\ mask = tailcuts_clean(CameraGeometry(tel_id),
                                    CalibratedImage(event, tel_id), 10, 5)
           /\ Len(heap[cleaned]) = Len(CalibratedImage(event, tel_id))
           /\ \A p \in 1..Len(heap[cleaned]) :
                  heap[cleaned][p] =
                      IF mask[p] THEN CalibratedImage(event, tel_id)[p] ELSE 0
    /\ pc = "write" => params = hillas_parameters(geom, heap[cleaned])
    /\ (InTelBody \/ pc = "next_tel") =>
           \A t \in Range(event.tels_with_data) : heap[t] = CalibratedImage(event, t)

C9_Witness ==
    /\ pc = "hillas"
    /\ \E p \in 1..Len(mask) : mask[p] /\ heap[cleaned][p] > 0
    /\ \E p \in 1..Len(mask) : ~mask[p] /\ heap[image][p] > 0 /\ heap[cleaned][p] = 0

\* ------------------------------------------------------------------ C10
\* C10: at every cleaning step the mask and the image have the same length,
\* the pixel count of the camera of the telescope at hand; the geometry and
\* the image are those of that telescope; the cleaned image is as long as
\* the image.
C10_SameLength ==
    /\ InTelBody =>
           /\ geom = CameraGeometry(tel_id)
           /\ image = tel_id
           /\ Len(heap[image]) = geom.n_pixels
    /\ pc \in {"copy", "hillas", "write"} =>
           /\ Len(mask) = Len(heap[image])
           /\ Len(mask) = CameraGeometry(tel_id).n_pixels
    /\ pc \in {"hillas", "write"} => Len(heap[cleaned]) = Len(heap[image])

C10_Witness ==
    /\ pc = "copy"
    /\ Len(mask) = 2
    /\ Len(heap[image]) = 2
    /\ Len(h5file) >= 1
    /\ h5file[Len(h5file)].table = "LSTCam"
    /\ h5file[Len(h5file)].containers[1].event_id = event.event_id

====
